---- MODULE Spec2Model ----
(***************************************************************************)
(* Model of src/lib.rs of cargo-reduce-recipe: reduce_workspace_recipe and *)
(* the functions it calls.  A TOML text is modelled by what toml_edit      *)
(* reports about it when parsed (does it parse, which keys it has, what    *)
(* type the values have); a text that does not parse is a value of its own.*)
(***************************************************************************)
EXTENDS Integers, Sequences, FiniteSets, TLC

VARIABLES recipe, pc, round, root_manifest, root_members, all_members,
          dependencies, keep, stack, pushes, reduced, result, first

vars == <<recipe, pc, round, root_manifest, root_members, all_members,
          dependencies, keep, stack, pushes, reduced, result, first>>

----------------------------------------------------------------------------
(* Bounds of the inputs.                                                   *)

\* manifests in a recipe
MaxManifests == 3
\* items of the root manifest's [workspace].members array
MaxRoots == 2
\* [[package]] entries of the lock file
MaxLock == 3

\* Strings that occur as crate names, dependency keys, members and lock names.
Names == {"a", "b", "c"}

----------------------------------------------------------------------------
(* Values.                                                                 *)

\* Option::None, for Option<String> and Option<&Manifest> (an index)
None == "None"
NoIndex == 0

\* [package] is missing / [package] has no name that is a string
NoPackage == "<no package>"
NoName == "<no string name>"
\* an array item that is not a string (as_str() gives None)
NotAString == "<not a string>"

RootPath == "Cargo.toml"
MemberPath(i) == <<"m1/Cargo.toml", "m2/Cargo.toml", "m3/Cargo.toml",
                   "m4/Cargo.toml", "m5/Cargo.toml">>[i]

Range(s) == {s[i] : i \in DOMAIN s}

\* the sequences that list every element of S once (an iteration order of a HashSet)
Orders(S) == {s \in [1..Cardinality(S) -> S] : Range(s) = S}

\* sequences over S of length at most n
SeqsUpTo(S, n) == UNION {[1..k -> S] : k \in 0..n}

Last(s) == s[Len(s)]
Front(s) == SubSeq(s, 1, Len(s) - 1)

----------------------------------------------------------------------------
(* The data: chef::Recipe { skeleton: { manifests, lock_file } }.          *)
(*   manifest  [relative_path, contents]                                   *)
(*   contents  [parses, package, has_deps, deps, ws, members]: what the    *)
(*             parsed document shows: the [package] name (or NoPackage,    *)
(*             NoName), whether dependencies is a table and its keys, the  *)
(*             kind of [workspace].members ("absent", "not_array",         *)
(*             "array") and the array's items                              *)
(*   lock_file [present, parses, is_array_of_tables, package]: package is  *)
(*             the list of entries [name, id]; id tells entries apart (it  *)
(*             stands for the rest of the entry: version, source, ...)     *)

Unparseable ==
    [parses |-> FALSE, package |-> NoPackage, has_deps |-> FALSE, deps |-> {},
     ws |-> "absent", members |-> <<>>]

NoLockFile ==
    [present |-> FALSE, parses |-> FALSE, is_array_of_tables |-> FALSE,
     package |-> <<>>]

NoRecipe == [manifests |-> <<>>, lock_file |-> NoLockFile]

ErrNoRoot == "no root Cargo.toml found"
ErrRootToml == "root Cargo.toml is not valid toml"
ErrMembers == "[workspace].members must be an array"
ErrLock == "lock file is not valid toml"
Errors == {ErrNoRoot, ErrRootToml, ErrMembers, ErrLock}

----------------------------------------------------------------------------
(* The functions of lib.rs.                                                *)

\* extract_crate_name: None unless the contents parse, have [package] and a
\* string name in it
extract_crate_name(manifest) ==
    IF ~manifest.contents.parses THEN None
    ELSE IF manifest.contents.package = NoPackage THEN None
    ELSE IF manifest.contents.package = NoName THEN None
    ELSE manifest.contents.package

\* get_root_manifest: the index of the first manifest whose path is
\* "Cargo.toml", NoIndex for the error
get_root_manifest(r) ==
    LET found == {i \in DOMAIN r.manifests : r.manifests[i].relative_path = RootPath}
    IN  IF found = {} THEN NoIndex
        ELSE CHOOSE i \in found : \A j \in found : i <= j

\* get_root_workspace_members with a missing list read as an empty one
get_root_workspace_members_default(root) ==
    IF ~root.contents.parses
    THEN [ok |-> FALSE, value |-> {}, error |-> ErrRootToml]
    ELSE IF root.contents.ws = "not_array"
    THEN [ok |-> FALSE, value |-> {}, error |-> ErrMembers]
    ELSE [ok |-> TRUE,
          value |-> {x \in Range(root.contents.members) : x # NotAString},
          error |-> None]

\* get_root_workspace_members: the string items of [workspace].members,
\* collected into a set; an item that is not a string is dropped by filter_map.
\* With [workspace] or members missing, doc["workspace"]["members"] gives no
\* array (or the index panics): no root set either way, modelled as the error.
get_root_workspace_members(root) ==
    IF ~root.contents.parses
    THEN [ok |-> FALSE, value |-> {}, error |-> ErrRootToml]
    ELSE IF root.contents.ws # "array"
    THEN [ok |-> FALSE, value |-> {}, error |-> ErrMembers]
    ELSE [ok |-> TRUE,
          value |-> {x \in Range(root.contents.members) : x # NotAString},
          error |-> None]

\* get_all_workspace_members
get_all_workspace_members(r) ==
    {extract_crate_name(r.manifests[i]) : i \in DOMAIN r.manifests} \ {None}

\* build_workspace_deps: the map after the first n manifests; a later
\* manifest of the same name replaces the entry (HashMap::insert)
RECURSIVE build_workspace_deps_upto(_, _, _)
build_workspace_deps_upto(r, members, n) ==
    IF n = 0 THEN <<>>
    ELSE LET map == build_workspace_deps_upto(r, members, n - 1)
             manifest == r.manifests[n]
             name == extract_crate_name(manifest)
             table == IF manifest.contents.has_deps THEN manifest.contents.deps ELSE {}
             deps == {d \in table : d \in members}
         IN  IF name = None THEN map
             ELSE IF ~manifest.contents.parses THEN map
             ELSE (name :> deps) @@ map

build_workspace_deps(r, members) ==
    build_workspace_deps_upto(r, members, Len(r.manifests))

\* keep_manifest with is_some_and for is_none_or
keep_manifest_named_only(m, keep_members) ==
    extract_crate_name(m) # None /\ extract_crate_name(m) \in keep_members

\* the closure of filter_manifests' retain
keep_manifest(m, keep_members) ==
    extract_crate_name(m) = None \/ extract_crate_name(m) \in keep_members

\* filter_manifests
filter_manifests(r, keep_members) ==
    [r EXCEPT !.manifests =
        SelectSeq(r.manifests, LAMBDA m : keep_manifest(m, keep_members))]

\* keep_package without the all_members test
keep_package_kept_only(pkg, members, keep_members) ==
    pkg.name = NoName \/ pkg.name \in keep_members

\* keep_package that keeps whatever is no member
keep_package_externals_only(pkg, members, keep_members) ==
    pkg.name = NoName \/ pkg.name \notin members

\* the closure of filter_lockfile_members' retain
keep_package(pkg, members, keep_members) ==
    pkg.name = NoName \/ pkg.name \notin members \/ pkg.name \in keep_members

\* filter_lockfile_members that leaves a lock file it cannot parse as it is
filter_lockfile_members_lenient(r, members, keep_members) ==
    IF ~r.lock_file.present \/ ~r.lock_file.parses \/ ~r.lock_file.is_array_of_tables
    THEN [ok |-> TRUE, value |-> r, error |-> None]
    ELSE [ok |-> TRUE,
          value |-> [r EXCEPT !.lock_file.package =
                SelectSeq(r.lock_file.package,
                          LAMBDA pkg : pkg.name = NoName \/ pkg.name \notin members
                                          \/ pkg.name \in keep_members)],
          error |-> None]

\* filter_lockfile_members: the new lock file, or the error; the text that is
\* stored is the filtered document written back
filter_lockfile_members(r, members, keep_members) ==
    IF ~r.lock_file.present THEN [ok |-> TRUE, value |-> r, error |-> None]
    ELSE IF ~r.lock_file.parses THEN [ok |-> FALSE, value |-> r, error |-> ErrLock]
    ELSE IF ~r.lock_file.is_array_of_tables THEN [ok |-> TRUE, value |-> r, error |-> None]
    ELSE [ok |-> TRUE,
          value |-> [r EXCEPT !.lock_file.package =
                SelectSeq(r.lock_file.package,
                          LAMBDA pkg : keep_package(pkg, members, keep_members))],
          error |-> None]

----------------------------------------------------------------------------
(* reduce_workspace_recipe(&recipe), one action per statement.  pc is the  *)
(* statement to run next; result is "running", "Ok" (Ok(reduced)) or the   *)
(* error returned.  The `?` of a statement is part of its action.          *)

\* line 45: let root_manifest = get_root_manifest(recipe)?;
GetRootManifest ==
    /\ pc = "get_root_manifest"
    /\ LET i == get_root_manifest(recipe)
       IN  IF i = NoIndex
           THEN /\ pc' = "done"
                /\ result' = ErrNoRoot
                /\ UNCHANGED root_manifest
           ELSE /\ pc' = "get_root_workspace_members"
                /\ root_manifest' = i
                /\ UNCHANGED result
    /\ UNCHANGED <<recipe, round, root_members, all_members, dependencies,
                   keep, stack, pushes, reduced, first>>

\* line 47: let root_members = get_root_workspace_members(root_manifest)?;
GetRootWorkspaceMembers ==
    /\ pc = "get_root_workspace_members"
    /\ LET r == get_root_workspace_members(recipe.manifests[root_manifest])
       IN  IF r.ok
           THEN /\ pc' = "get_all_workspace_members"
                /\ root_members' = r.value
                /\ UNCHANGED result
           ELSE /\ pc' = "done"
                /\ result' = r.error
                /\ UNCHANGED root_members
    /\ UNCHANGED <<recipe, round, root_manifest, all_members, dependencies,
                   keep, stack, pushes, reduced, first>>

\* line 49: let all_members = get_all_workspace_members(recipe);
GetAllWorkspaceMembers ==
    /\ pc = "get_all_workspace_members"
    /\ all_members' = get_all_workspace_members(recipe)
    /\ pc' = "build_workspace_deps"
    /\ UNCHANGED <<recipe, round, root_manifest, root_members, dependencies,
                   keep, stack, pushes, reduced, result, first>>

\* line 51: let dependencies = build_workspace_deps(recipe, &all_members);
BuildWorkspaceDeps ==
    /\ pc = "build_workspace_deps"
    /\ dependencies' = build_workspace_deps(recipe, all_members)
    /\ pc' = "compute_transitive_members"
    /\ UNCHANGED <<recipe, round, root_manifest, root_members, all_members,
                   keep, stack, pushes, reduced, result, first>>

\* lines 129-130 of compute_transitive_members: keep is empty and the stack
\* holds the roots, in the order the HashSet iterates them
ComputeStart ==
    /\ pc = "compute_transitive_members"
    /\ keep' = {}
    /\ \E order \in Orders(root_members) : stack' = order
    /\ pc' = "while"
    /\ UNCHANGED <<recipe, round, root_manifest, root_members, all_members,
                   dependencies, pushes, reduced, result, first>>

\* pushes_deps with the result of insert negated
pushes_deps_negated(member, kept, deps) ==
    member \in kept /\ member \in DOMAIN deps

\* pushes_deps without the result of insert
pushes_deps_always(member, kept, deps) ==
    member \in DOMAIN deps

\* line 133-134: keep.insert(member) && let Some(ds) = deps.get(member)
pushes_deps(member, kept, deps) ==
    member \notin kept /\ member \in DOMAIN deps

\* lines 132-138: one turn of the while loop: pop a member, insert it into
\* keep and, if it was new and has an entry in deps, push its dependencies
\* in the order the HashSet iterates them
ComputeStep ==
    /\ pc = "while"
    /\ stack # <<>>
    /\ LET member == Last(stack)
       IN  /\ keep' = keep \cup {member}
           /\ IF pushes_deps(member, keep, dependencies)
              THEN /\ \E order \in Orders(dependencies[member]) :
                         stack' = Front(stack) \o order
                   /\ pushes' = [pushes EXCEPT ![member] = @ + 1]
              ELSE /\ stack' = Front(stack)
                   /\ UNCHANGED pushes
    /\ UNCHANGED <<recipe, pc, round, root_manifest, root_members, all_members,
                   dependencies, reduced, result, first>>

\* FilterManifests without the clone: the caller's recipe is pruned
FilterManifestsInPlace ==
    /\ pc = "while"
    /\ stack = <<>>
    /\ recipe' = filter_manifests(recipe, keep)
    /\ reduced' = filter_manifests(recipe, keep)
    /\ pc' = "filter_lockfile_members"
    /\ UNCHANGED <<round, root_manifest, root_members, all_members,
                   dependencies, keep, stack, pushes, result, first>>

\* line 132 with the stack empty, then lines 53-56: keep is returned, the
\* recipe is cloned and filter_manifests prunes the clone
FilterManifests ==
    /\ pc = "while"
    /\ stack = <<>>
    /\ reduced' = filter_manifests(recipe, keep)
    /\ pc' = "filter_lockfile_members"
    /\ UNCHANGED <<recipe, round, root_manifest, root_members, all_members,
                   dependencies, keep, stack, pushes, result, first>>

\* lines 58-60: filter_lockfile_members(&mut reduced, ..)?; Ok(reduced)
FilterLockfileMembers ==
    /\ pc = "filter_lockfile_members"
    /\ LET r == filter_lockfile_members(reduced, all_members, keep)
       IN  IF r.ok
           THEN /\ reduced' = r.value
                /\ result' = "Ok"
           ELSE /\ result' = r.error
                /\ UNCHANGED reduced
    /\ pc' = "done"
    /\ UNCHANGED <<recipe, round, root_manifest, root_members, all_members,
                   dependencies, keep, stack, pushes, first>>

\* The caller reduces the recipe it got back: reduce_workspace_recipe(&reduced),
\* once.  first remembers the recipe the first call returned.
ReduceAgain ==
    /\ pc = "done"
    /\ result = "Ok"
    /\ round = 1
    /\ recipe' = reduced
    /\ first' = reduced
    /\ round' = round + 1
    /\ pc' = "get_root_manifest"
    /\ root_manifest' = NoIndex
    /\ root_members' = {}
    /\ all_members' = {}
    /\ dependencies' = <<>>
    /\ keep' = {}
    /\ stack' = <<>>
    /\ pushes' = [n \in Names |-> 0]
    /\ reduced' = NoRecipe
    /\ result' = "running"

----------------------------------------------------------------------------
(* The recipes the calls are made on.  Crate names are unique and so are   *)
(* paths, as cargo requires of a workspace; only the manifest at           *)
(* "Cargo.toml" has a [workspace] section.  Three families, each wide in   *)
(* one part of the recipe: the dependency graph, the root manifest and the *)
(* kinds of manifest, the lock file.                                       *)

Virtual ==
    [parses |-> TRUE, package |-> NoPackage, has_deps |-> FALSE, deps |-> {},
     ws |-> "absent", members |-> <<>>]

Nameless == [Virtual EXCEPT !.package = NoName]

Named(n, D) == [Virtual EXCEPT !.package = n, !.has_deps = TRUE, !.deps = D]

NamedNoDeps(n) == [Virtual EXCEPT !.package = n]

WithMembers(c, kind, items) == [c EXCEPT !.ws = kind, !.members = items]

Manifest(path, c) == [relative_path |-> path, contents |-> c]

\* the manifests with contents cs, the one at position rootPos (if any) at
\* "Cargo.toml"
Manifests(cs, rootPos) ==
    [i \in DOMAIN cs |->
        Manifest(IF i = rootPos THEN RootPath ELSE MemberPath(i), cs[i])]

DistinctNames(ms) ==
    \A i, j \in DOMAIN ms :
        (i < j /\ extract_crate_name(ms[i]) # None)
            => extract_crate_name(ms[i]) # extract_crate_name(ms[j])

\* a lock file with the entries named by the sequence names
Lock(names) ==
    [present |-> TRUE, parses |-> TRUE, is_array_of_tables |-> TRUE,
     package |-> [i \in DOMAIN names |-> [name |-> names[i], id |-> i]]]

UnparseableLock == [Lock(<<>>) EXCEPT !.parses = FALSE, !.is_array_of_tables = FALSE]

\* package is there but is not an array of tables (an inline array, say)
InlineLock == [Lock(<<"a", "b">>) EXCEPT !.is_array_of_tables = FALSE]

StandardLock == Lock(<<"c", "a", NoName, "b">>)

\* one order of the set S
AsSeq(S) == CHOOSE s \in Orders(S) : TRUE

Recipe(ms, lock) == [manifests |-> ms, lock_file |-> lock]

NameBefore(m, n) == <<m, n>> \in {<<"a", "b">>, <<"a", "c">>, <<"b", "c">>}

\* Graphs: a virtual root first, any root set, then crates with any
\* dependency keys, in the order of their names
GraphInput ==
    \E R \in SUBSET Names :
        \E cs \in SeqsUpTo({Named(n, D) : n \in Names, D \in SUBSET Names},
                           MaxManifests - 1) :
            /\ \A i, j \in DOMAIN cs : i < j => NameBefore(cs[i].package, cs[j].package)
            /\ recipe = Recipe(<<Manifest(RootPath, WithMembers(Virtual, "array", AsSeq(R)))>>
                                  \o Manifests(cs, NoIndex), StandardLock)

\* Root manifests: missing, anywhere in the list, unparseable, virtual or a
\* package, with every kind of [workspace].members; among manifests of every kind
MembersItems == Names \cup {NotAString}

RootContents ==
    {Unparseable} \cup
    {WithMembers(c, "absent", <<>>) : c \in {Virtual, Named("c", {"a"})}} \cup
    {WithMembers(c, "not_array", <<>>) : c \in {Virtual, Named("c", {"a"})}} \cup
    {WithMembers(c, "array", items) :
        c \in {Virtual, Named("c", {"a"})},
        items \in SeqsUpTo(MembersItems, MaxRoots)}

OtherContents ==
    {Unparseable, Virtual, Nameless, Named("a", {"b"}), NamedNoDeps("b")}

\* lists of manifests that are not the root manifest
OtherLists(n) ==
    {c \in SeqsUpTo(OtherContents, n) : DistinctNames(Manifests(c, NoIndex))}

InsertAt(s, i, e) == SubSeq(s, 1, i - 1) \o <<e>> \o SubSeq(s, i, Len(s))

RootInput ==
    \/ \E cs \in OtherLists(MaxManifests) :
          recipe = Recipe(Manifests(cs, NoIndex), StandardLock)
    \/ \E cs \in OtherLists(MaxManifests - 1) :
          \E rootPos \in 1..(Len(cs) + 1), root \in RootContents :
              recipe = Recipe(Manifests(InsertAt(cs, rootPos, root), rootPos),
                              StandardLock)

\* Lock files: none, unparseable, without [[package]], and every list of
\* entries; for a few workspaces
LockFiles ==
    {NoLockFile, UnparseableLock, InlineLock} \cup
    {Lock(names) : names \in SeqsUpTo(Names \cup {NoName}, MaxLock)}

Workspaces ==
    { \* root = [a], b unrelated
      <<Manifest(RootPath, WithMembers(Virtual, "array", <<"a">>)),
        Manifest(MemberPath(2), Named("a", {})),
        Manifest(MemberPath(3), Named("b", {}))>>,
      \* root = [a], a -> b
      <<Manifest(RootPath, WithMembers(Virtual, "array", <<"a">>)),
        Manifest(MemberPath(2), Named("a", {"b"})),
        Manifest(MemberPath(3), Named("b", {}))>>,
      \* no root manifest
      <<Manifest(MemberPath(1), Named("a", {}))>>,
      \* the root manifest is package c, which no root needs
      <<Manifest(RootPath, WithMembers(Named("c", {}), "array", <<"a">>)),
        Manifest(MemberPath(2), Named("a", {}))>>,
      \* root = [a, c], c is no crate; b -> a is not needed
      <<Manifest(MemberPath(1), Named("b", {"a"})),
        Manifest(RootPath, WithMembers(Virtual, "array", <<"a", "c">>)),
        Manifest(MemberPath(3), Named("a", {"c"}))>> }

LockInput == \E ms \in Workspaces, lock \in LockFiles : recipe = Recipe(ms, lock)

----------------------------------------------------------------------------
Init ==
    /\ (GraphInput \/ RootInput \/ LockInput)
    /\ pc = "get_root_manifest"
    /\ round = 1
    /\ root_manifest = NoIndex
    /\ root_members = {}
    /\ all_members = {}
    /\ dependencies = <<>>
    /\ keep = {}
    /\ stack = <<>>
    /\ pushes = [n \in Names |-> 0]
    /\ reduced = NoRecipe
    /\ result = "running"
    /\ first = NoRecipe

Next ==
    \/ GetRootManifest
    \/ GetRootWorkspaceMembers
    \/ GetAllWorkspaceMembers
    \/ BuildWorkspaceDeps
    \/ ComputeStart
    \/ ComputeStep
    \/ FilterManifests
    \/ FilterLockfileMembers
    \/ ReduceAgain

Spec == Init /\ [][Next]_vars

\* the call runs to its end: no statement of it waits for anything
FairSpec == Spec /\ WF_vars(Next)

----------------------------------------------------------------------------
(* The words of the claims, read off the recipe.                           *)

Returned == pc = "done"
Succeeded == pc = "done" /\ result = "Ok"

\* the crate names of r's manifests
CrateNamesOf(r) ==
    {n \in Names : \E i \in DOMAIN r.manifests :
        r.manifests[i].contents.parses /\ r.manifests[i].contents.package = n}

\* n -> d: d is a key of the [dependencies] table of the manifest of crate n
\* and is a crate name
EdgesOf(r) ==
    {e \in Names \X Names : \E i \in DOMAIN r.manifests :
        LET c == r.manifests[i].contents
        IN  /\ c.parses /\ c.package = e[1]
            /\ c.has_deps /\ e[2] \in c.deps
            /\ e[2] \in CrateNamesOf(r)}

HasRootManifest(r) ==
    \E i \in DOMAIN r.manifests : r.manifests[i].relative_path = RootPath

\* the strings listed in [workspace].members of the root manifest
RootsOf(r) ==
    {x \in Range(r.manifests[get_root_manifest(r)].contents.members) : x # NotAString}

\* a path of zero or more edges from a root to c
PathTo(r, c) ==
    LET E == EdgesOf(r)
        R == RootsOf(r)
    IN  \E p \in SeqsUpTo(Names, Cardinality(Names)) :
            /\ Len(p) >= 1
            /\ p[1] \in R
            /\ p[Len(p)] = c
            /\ \A i \in 1..(Len(p) - 1) : <<p[i], p[i + 1]>> \in E

ReachableOf(r) == {c \in Names : PathTo(r, c)}

\* the crate names of the manifests of the output
OutputNames == {extract_crate_name(reduced.manifests[i]) : i \in DOMAIN reduced.manifests}

InOutput(m) == \E i \in DOMAIN reduced.manifests : reduced.manifests[i] = m

\* s lists some of t's elements (all different), in t's order
IsSubsequence(s, t) ==
    /\ Range(s) \subseteq Range(t)
    /\ \A i, j \in DOMAIN s :
          i < j => \E k, l \in DOMAIN t : k < l /\ t[k] = s[i] /\ t[l] = s[j]

----------------------------------------------------------------------------
(* C1 *)

\* C1 (as claimed): after a successful call, a manifest of crate name c is in
\* the output iff a path of zero or more dependency edges leads from a root
\* to c, for every name c and every root set.
C1_AsClaimed ==
    Succeeded => \A c \in Names : (c \in OutputNames) <=> PathTo(recipe, c)

\* C1 (amended): after a successful call, a manifest of crate name c is in the
\* output iff c is the crate name of a manifest of the input and a path of
\* zero or more dependency edges leads from a root to c; the kept manifests
\* are the input's, in the input's order.
C1_Closure ==
    Succeeded =>
        /\ \A c \in Names :
              (c \in OutputNames) <=> (c \in CrateNamesOf(recipe) /\ PathTo(recipe, c))
        /\ IsSubsequence(reduced.manifests, recipe.manifests)

\* a crate that is no root is kept through an edge, and a root names no crate
C1_Witness ==
    /\ Succeeded
    /\ \E c \in OutputNames \cap Names : c \notin RootsOf(recipe)
    /\ \E x \in RootsOf(recipe) : x \notin CrateNamesOf(recipe)

----------------------------------------------------------------------------
(* C2 *)

InLock == recipe.lock_file.package
OutLock == reduced.lock_file.package

\* C2: after a successful reduction of a recipe with a lock file with
\* [[package]] entries, an entry whose name is no crate name of the recipe is
\* in the output lock file, an entry whose name is a crate name is in it iff
\* the name is in the keep set, no entry is added and the order is kept.
C2_LockEntries ==
    (Succeeded /\ recipe.lock_file.present /\ recipe.lock_file.is_array_of_tables) =>
        /\ \A i \in DOMAIN InLock :
              IF InLock[i].name \in CrateNamesOf(recipe)
              THEN (InLock[i] \in Range(OutLock)) <=> (InLock[i].name \in keep)
              ELSE InLock[i] \in Range(OutLock)
        /\ IsSubsequence(OutLock, InLock)

\* an entry of a crate is dropped, after it an entry of a crate is kept, and
\* an entry that is no crate's is kept
C2_Witness ==
    /\ Succeeded /\ recipe.lock_file.present /\ recipe.lock_file.is_array_of_tables
    /\ \E i, j, k \in DOMAIN InLock :
          /\ i < j
          /\ InLock[i].name \in CrateNamesOf(recipe) /\ InLock[i] \notin Range(OutLock)
          /\ InLock[j].name \in CrateNamesOf(recipe) /\ InLock[j] \in Range(OutLock)
          /\ InLock[k].name \in Names \ CrateNamesOf(recipe) /\ InLock[k] \in Range(OutLock)

----------------------------------------------------------------------------
(* C3 *)

\* C3: after a successful call the manifest at "Cargo.toml" is in the output,
\* whatever the keep set is, also when it declares a [package] name that
\* is not kept.
C3_RootManifestKept ==
    Succeeded => InOutput(recipe.manifests[get_root_manifest(recipe)])

----------------------------------------------------------------------------
(* C4 *)

NoCrateName(m) ==
    \/ ~m.contents.parses
    \/ m.contents.package = NoPackage
    \/ m.contents.package = NoName

\* C4: after a successful reduction every input manifest from which no crate
\* name can be extracted (unparseable, no [package], no string name) is in
\* the output, with its path and contents.
C4_VirtualKept ==
    Succeeded =>
        \A i \in DOMAIN recipe.manifests :
            NoCrateName(recipe.manifests[i]) => InOutput(recipe.manifests[i])

\* an unparseable manifest and one without a string name, neither the root
\* manifest, are kept by a call that drops a crate
C4_Witness ==
    /\ Succeeded
    /\ \E i, j \in DOMAIN recipe.manifests :
          /\ recipe.manifests[i].relative_path # RootPath
          /\ recipe.manifests[j].relative_path # RootPath
          /\ ~recipe.manifests[i].contents.parses
          /\ recipe.manifests[j].contents.parses
          /\ recipe.manifests[j].contents.package \in {NoPackage, NoName}
          /\ InOutput(recipe.manifests[i]) /\ InOutput(recipe.manifests[j])
    /\ Len(reduced.manifests) < Len(recipe.manifests)

----------------------------------------------------------------------------
(* C5 *)

\* C5: if every crate name of the recipe is reachable from the root set, a
\* successful call returns the input: the same manifests in the same order,
\* the same lock-file entries.
C5_FullIsIdentity ==
    (Succeeded /\ CrateNamesOf(recipe) \subseteq ReachableOf(recipe)) =>
        /\ reduced.manifests = recipe.manifests
        /\ reduced.lock_file.present = recipe.lock_file.present
        /\ reduced.lock_file.package = recipe.lock_file.package

\* two crates, one reached only through the other, and a lock file with
\* entries of crates and of others
C5_Witness ==
    /\ Succeeded /\ CrateNamesOf(recipe) \subseteq ReachableOf(recipe)
    /\ \E c \in CrateNamesOf(recipe) : c \notin RootsOf(recipe)
    /\ recipe.lock_file.is_array_of_tables
    /\ \E i, j \in DOMAIN InLock :
          InLock[i].name \in CrateNamesOf(recipe) /\ InLock[j].name \notin CrateNamesOf(recipe)

----------------------------------------------------------------------------
(* C6 *)

\* get_root_workspace_members has returned (a root manifest was found)
RootMembersReturned ==
    /\ pc \notin {"get_root_manifest", "get_root_workspace_members"}
    /\ result # ErrNoRoot

RootMembersFailed == result \in {ErrRootToml, ErrMembers}

RootContentsOf(r) == r.manifests[get_root_manifest(r)].contents

\* C6 (as claimed): root-set resolution fails when the member list is absent,
\* is not an array, or is an array with an item that is not a string; else
\* it returns exactly the listed strings.
C6_AsClaimed ==
    RootMembersReturned =>
        LET c == RootContentsOf(recipe)
            bad == \/ ~c.parses
                   \/ c.ws # "array"
                   \/ NotAString \in Range(c.members)
        IN  /\ RootMembersFailed <=> bad
            /\ ~RootMembersFailed => root_members = Range(c.members)

\* C6 (amended): root-set resolution fails iff the root manifest does not
\* parse or its member list is absent or not an array; for an array it
\* returns the set of the items that are strings, and skips the others.
C6_RootSet ==
    RootMembersReturned =>
        LET c == RootContentsOf(recipe)
        IN  /\ RootMembersFailed <=> (~c.parses \/ c.ws # "array")
            /\ ~RootMembersFailed => root_members = Range(c.members) \ {NotAString}

\* an array of a string and an item that is no string gives a root set
C6_Witness ==
    /\ RootMembersReturned
    /\ ~RootMembersFailed
    /\ NotAString \in Range(RootContentsOf(recipe).members)
    /\ root_members # {}

----------------------------------------------------------------------------
(* C7 *)

RootUsable(r) ==
    /\ HasRootManifest(r)
    /\ RootContentsOf(r).parses
    /\ RootContentsOf(r).ws = "array"

LockUnparseable(r) == r.lock_file.present /\ ~r.lock_file.parses

\* C7: the call returns an error when no manifest is at "Cargo.toml" (that
\* error, whatever the lock file is) and when the lock file is present and does
\* not parse; a manifest that does not parse and is not the root manifest
\* never makes it fail: with a usable root manifest and lock file it succeeds.
C7_Failures ==
    Returned =>
        /\ ~HasRootManifest(recipe) => result = ErrNoRoot
        /\ LockUnparseable(recipe) => result \in Errors
        /\ (RootUsable(recipe) /\ LockUnparseable(recipe)) => result = ErrLock
        /\ (RootUsable(recipe) /\ ~LockUnparseable(recipe)) => result = "Ok"

\* no root manifest and an unparseable lock file
C7_Witness ==
    /\ Returned
    /\ ~HasRootManifest(recipe)
    /\ LockUnparseable(recipe)
    /\ recipe.manifests # <<>>

\* a call succeeds on a recipe with an unparseable manifest
C7_WitnessTolerated ==
    /\ Succeeded
    /\ \E i \in DOMAIN recipe.manifests : ~recipe.manifests[i].contents.parses

----------------------------------------------------------------------------
(* C8 *)

\* C8: a call never changes the recipe it is given, whatever it returns: the
\* recipe changes only when the caller passes another one to the next call.
C8_InputUnchanged == [][round' = round => recipe' = recipe]_vars

\* the lock file fails to parse after the manifests of the clone were pruned
C8_Witness ==
    /\ Returned
    /\ result = ErrLock
    /\ Len(reduced.manifests) < Len(recipe.manifests)

----------------------------------------------------------------------------
(* C9 *)

\* the least set that holds the roots and the dependencies of its members
RECURSIVE Closure(_, _)
Closure(S, deps) ==
    LET T == S \cup UNION {deps[n] : n \in S \cap DOMAIN deps}
    IN  IF T = S THEN S ELSE Closure(T, deps)

\* C9: the work-list loop ends for every root set and dependency map, cycles
\* and self-dependencies included; the dependencies of a name are pushed at
\* most once; when the stack is empty keep is the closure of the roots,
\* whatever order the names were popped in.
C9_LoopEnds ==
    /\ [](\A n \in Names : pushes[n] <= 1)
    /\ []((pc = "while" /\ stack = <<>>) => keep = Closure(root_members, dependencies))
    /\ ((pc = "while") ~> (pc = "filter_lockfile_members"))

\* the loop has ended on a map with a cycle of two crates, one of which
\* also depends on itself
C9_Witness ==
    /\ pc = "while" /\ stack = <<>>
    /\ \E m, n \in keep \cap DOMAIN dependencies :
          /\ m # n
          /\ n \in dependencies[m] /\ m \in dependencies[n]
          /\ m \in dependencies[m]

----------------------------------------------------------------------------
(* C10 *)

\* C10: reducing the recipe a successful call returned succeeds and returns
\* the same manifests and the same lock-file entries.
C10_Idempotent ==
    (Returned /\ round = 2) =>
        /\ result = "Ok"
        /\ reduced.manifests = first.manifests
        /\ reduced.lock_file.package = first.lock_file.package


====
